---- MODULE Spec2Model ----
(***************************************************************************)
(* MiniVenmo (src/src/minivenmo.py): a peer-to-peer payment ledger.        *)
(*                                                                         *)
(* Objects are modelled by their position on the heap: a User is its index *)
(* in MiniVenmo.users (identity, which is what Python's == and `in` test   *)
(* for objects that define no __eq__), a CreditCard is its index in cards, *)
(* the sequence of all CreditCard objects constructed so far.  Amounts are *)
(* integers (whole dollars), on which Python's arithmetic is exact.        *)
(***************************************************************************)
EXTENDS Integers, Sequences, FiniteSets, TLC

VARIABLES
    users,   \* MiniVenmo.users: the User objects, in creation order
    cards,   \* every CreditCard object constructed so far
    last,    \* the most recent call: its arguments and what it returned
    ncalls,  \* number of calls made so far
    befriended, \* history: the <<self, friend>> of every add_friend that returned True
    run      \* the run being explored: the number of calls it may make (limit)
             \* and, for a run of main(), the calls main() makes (script)

vars == <<users, cards, last, ncalls, befriended, run>>

\* ------------------------------------------------------------------ bounds
\* A run makes at most MaxCalls calls.
MaxCalls == 5

\* A run that starts from two accounts and a credit card makes at most
\* MaxFundedCalls further calls.
MaxFundedCalls == 2

\* The inputs the calls are made with.
Names        == {"Alice", "Bob"}
UserBalances == {1, 3}
CardBalances == {-1, 2, 3}
Amounts      == {-1, 0, 2, 3}
Descriptions == {"lunch"}

\* User.credit_card = None
None == 0

UserIds == 1..Len(users)
CardIds == 1..Len(cards)

\* ----------------------------------------------------------------- helpers
\* Python's `x in list`
InList(x, list) == \E i \in 1..Len(list) : list[i] = x

\* ------------------------------------------------------------- string forms
\* Variant of fmt2: the amount is printed without a format (f"{amount}").
fmt2_raw(amount) == ToString(amount)

\* f"{amount:.2f}" on an integer-valued amount
fmt2(amount) == ToString(amount) \o ".00"

\* f"{self.name} and {friend.name} are now friends"
friend_msg(a, b) == a \o " and " \o b \o " are now friends"

\* f"{self.name} paid {recipient.name} ${amount:.2f} for {description}"
paid_msg(payer, recipient, amount, description) ==
    payer \o " paid " \o recipient \o " $" \o fmt2(amount) \o " for " \o description

\* f"Paid {recipient.name} ${amount:.2f} for {description} (credit card)"
card_msg(recipient, amount, description) ==
    "Paid " \o recipient \o " $" \o fmt2(amount) \o " for " \o description
        \o " (credit card)"

\* ------------------------------------------------------------- constructors
\* User.__init__
NewUser(name, balance) ==
    [name |-> name, balance |-> balance, credit_card |-> None,
     friends |-> <<>>, activity_log |-> <<>>]

\* CreditCard.__init__
NewCard(balance) == [balance |-> balance]

\* The record of a call.
Call(op, self, other, amount, description, result, out) ==
    [op |-> op, self |-> self, other |-> other, amount |-> amount,
     description |-> description, result |-> result, out |-> out]

\* ------------------------------------------------------------ CreditCard
\* Variant of charge_ok: a strict comparison.
charge_ok_strict(balance, amount) == balance > amount

\* CreditCard.charge: the test `self.balance >= amount`
charge_ok(balance, amount) == balance >= amount

\* Variant of charge_balance: the amount is subtracted without the test.
charge_balance_unchecked(balance, amount) == balance - amount

\* CreditCard.charge: the balance it leaves
charge_balance(balance, amount) ==
    IF charge_ok(balance, amount) THEN balance - amount ELSE balance

\* ------------------------------------------------------------------- User
\* Variant of add_friend_ok: the membership test is left out.
add_friend_ok_no_member_test(us, s, f) == f # s

\* User.add_friend: neither early return is taken
add_friend_ok(us, s, f) == f # s /\ ~InList(f, us[s].friends)

\* Variant of add_friend_users: only the caller's side is updated.
add_friend_users_one_sided(us, s, f) ==
    [u \in 1..Len(us) |->
        IF u = s THEN
            [us[u] EXCEPT !.friends = Append(@, f),
                          !.activity_log =
                              Append(@, friend_msg(us[s].name, us[f].name))]
        ELSE us[u]]

\* User.add_friend: the four appends
add_friend_users(us, s, f) ==
    [u \in 1..Len(us) |->
        IF u = s THEN
            [us[u] EXCEPT !.friends = Append(@, f),
                          !.activity_log =
                              Append(@, friend_msg(us[s].name, us[f].name))]
        ELSE IF u = f THEN
            [us[u] EXCEPT !.friends = Append(@, s),
                          !.activity_log =
                              Append(@, friend_msg(us[f].name, us[s].name))]
        ELSE us[u]]

\* Variant of credit_covers: a strict comparison, refusing an exact balance.
credit_covers_strict(us, cs, s, amount) ==
    us[s].credit_card # None /\ cs[us[s].credit_card].balance > amount

\* Variant of credit_covers: only the presence of a card is tested.
credit_covers_any(us, cs, s, amount) == us[s].credit_card # None

\* Variant of credit_covers: cash and credit are added up.
credit_covers_combined(us, cs, s, amount) ==
    /\ us[s].credit_card # None
    /\ us[s].balance + cs[us[s].credit_card].balance >= amount

\* User.pay: `self.credit_card and self.credit_card.balance >= amount`
credit_covers(us, cs, s, amount) ==
    us[s].credit_card # None /\ cs[us[s].credit_card].balance >= amount

\* Variant of pay_path: the credit card is tried before the cash balance.
pay_path_credit_first(us, cs, s, r, amount) ==
    IF r = s THEN "fail"
    ELSE IF amount <= 0 THEN "fail"
    ELSE IF credit_covers(us, cs, s, amount) THEN "credit"
    ELSE IF us[s].balance >= amount THEN "cash"
    ELSE "fail"

\* Variant of pay_path: the cash balance is debited without being tested.
pay_path_cash_untested(us, cs, s, r, amount) ==
    IF r = s THEN "fail"
    ELSE IF amount <= 0 THEN "fail"
    ELSE "cash"

\* Variant of pay_path: only a friend can be paid.
pay_path_friends_only(us, cs, s, r, amount) ==
    IF r = s THEN "fail"
    ELSE IF amount <= 0 THEN "fail"
    ELSE IF ~InList(r, us[s].friends) THEN "fail"
    ELSE IF us[s].balance >= amount THEN "cash"
    ELSE IF credit_covers(us, cs, s, amount) THEN "credit"
    ELSE "fail"

\* Variant of pay_path: the recipient is compared with the payer by name.
pay_path_by_name(us, cs, s, r, amount) ==
    IF us[r].name = us[s].name THEN "fail"
    ELSE IF amount <= 0 THEN "fail"
    ELSE IF us[s].balance >= amount THEN "cash"
    ELSE IF credit_covers(us, cs, s, amount) THEN "credit"
    ELSE "fail"

\* User.pay: the branch taken
pay_path(us, cs, s, r, amount) ==
    IF r = s THEN "fail"
    ELSE IF amount <= 0 THEN "fail"
    ELSE IF us[s].balance >= amount THEN "cash"
    ELSE IF credit_covers(us, cs, s, amount) THEN "credit"
    ELSE "fail"

\* Variant of pay_cash_users: the recipient's entry is inserted at the front.
pay_cash_users_insert_front(us, s, r, amount, description) ==
    [u \in 1..Len(us) |->
        IF u = s THEN
            [us[u] EXCEPT !.balance = @ - amount,
                          !.activity_log = Append(@,
                              paid_msg(us[s].name, us[r].name, amount, description))]
        ELSE IF u = r THEN
            [us[u] EXCEPT !.balance = @ + amount,
                          !.activity_log =
                              <<paid_msg(us[s].name, us[r].name, amount, description)>>
                                  \o @]
        ELSE us[u]]

\* User.pay, cash branch: users afterwards
pay_cash_users(us, s, r, amount, description) ==
    [u \in 1..Len(us) |->
        IF u = s THEN
            [us[u] EXCEPT !.balance = @ - amount,
                          !.activity_log = Append(@,
                              paid_msg(us[s].name, us[r].name, amount, description))]
        ELSE IF u = r THEN
            [us[u] EXCEPT !.balance = @ + amount,
                          !.activity_log = Append(@,
                              paid_msg(us[s].name, us[r].name, amount, description))]
        ELSE us[u]]

\* Variant of pay_credit_users: both logs get the cash branch's entry.
pay_credit_users_same_entry(us, s, r, amount, description) ==
    [u \in 1..Len(us) |->
        IF u = s THEN
            [us[u] EXCEPT !.activity_log = Append(@,
                              paid_msg(us[s].name, us[r].name, amount, description))]
        ELSE IF u = r THEN
            [us[u] EXCEPT !.balance = @ + amount,
                          !.activity_log = Append(@,
                              paid_msg(us[s].name, us[r].name, amount, description))]
        ELSE us[u]]

\* User.pay, credit branch: users afterwards
pay_credit_users(us, s, r, amount, description) ==
    [u \in 1..Len(us) |->
        IF u = s THEN
            [us[u] EXCEPT !.activity_log = Append(@,
                              card_msg(us[r].name, amount, description))]
        ELSE IF u = r THEN
            [us[u] EXCEPT !.balance = @ + amount,
                          !.activity_log = Append(@,
                              paid_msg(us[s].name, us[r].name, amount, description))]
        ELSE us[u]]

\* Variant of pay_credit_cards: the card is not debited.
pay_credit_cards_no_debit(us, cs, s, amount) == cs

\* User.pay, credit branch: `self.credit_card.balance -= amount`
pay_credit_cards(us, cs, s, amount) ==
    [cs EXCEPT ![us[s].credit_card].balance = @ - amount]

\* -------------------------------------------------------------- MiniVenmo
\* Variant of feed_log: every entry is appended, without the `not in` test.
feed_log_no_test(feed, log) == feed \o log

\* MiniVenmo.render_feed: `if entry not in feed: feed.append(entry)` over a log
RECURSIVE feed_log(_, _)
feed_log(feed, log) ==
    IF log = <<>> THEN feed
    ELSE feed_log(IF InList(Head(log), feed) THEN feed ELSE Append(feed, Head(log)),
                  Tail(log))

\* Variant of feed_from: the users are visited from the newest to the oldest.
RECURSIVE feed_from_reverse(_, _, _)
feed_from_reverse(us, i, feed) ==
    IF i > Len(us) THEN feed
    ELSE feed_from_reverse(us, i + 1,
                           feed_log(feed, us[Len(us) + 1 - i].activity_log))

\* MiniVenmo.render_feed: the outer loop, from user i on
RECURSIVE feed_from(_, _, _)
feed_from(us, i, feed) ==
    IF i > Len(us) THEN feed
    ELSE feed_from(us, i + 1, feed_log(feed, us[i].activity_log))

render_feed_of(us) == feed_from(us, 1, <<>>)

\* ---------------------------------------------------------------- actions
Init ==
    /\ users = <<>>
    /\ cards = <<>>
    /\ last = Call("init", 0, 0, 0, "", FALSE, <<>>)
    /\ ncalls = 0
    /\ befriended = <<>>
    /\ run = [limit |-> MaxCalls, script |-> <<>>]

\* Variant of create_user: a name already registered is not registered again
\* (the account that has it is returned).
create_user_unique(name, balance) ==
    /\ ncalls < run.limit
    /\ IF \E u \in UserIds : users[u].name = name
       THEN /\ users' = users
            /\ last' = Call("create_user",
                            CHOOSE u \in UserIds : users[u].name = name,
                            0, balance, name, TRUE, <<>>)
       ELSE /\ users' = Append(users, NewUser(name, balance))
            /\ last' = Call("create_user", Len(users) + 1, 0, balance, name,
                            TRUE, <<>>)
    /\ ncalls' = ncalls + 1
    /\ UNCHANGED <<cards, befriended, run>>

\* MiniVenmo.create_user(name, balance)
create_user(name, balance) ==
    /\ ncalls < run.limit
    /\ users' = Append(users, NewUser(name, balance))
    /\ last' = Call("create_user", Len(users) + 1, 0, balance, name, TRUE, <<>>)
    /\ ncalls' = ncalls + 1
    /\ UNCHANGED <<cards, befriended, run>>

\* CreditCard(balance)
new_credit_card(balance) ==
    /\ ncalls < run.limit
    /\ cards' = Append(cards, NewCard(balance))
    /\ last' = Call("CreditCard", 0, Len(cards) + 1, balance, "", TRUE, <<>>)
    /\ ncalls' = ncalls + 1
    /\ UNCHANGED <<users, befriended, run>>

\* User.assign_credit_card(credit_card)
assign_credit_card(s, c) ==
    /\ ncalls < run.limit
    /\ users' = [users EXCEPT ![s].credit_card = c]
    /\ last' = Call("assign_credit_card", s, c, 0, "", TRUE, <<>>)
    /\ ncalls' = ncalls + 1
    /\ UNCHANGED <<cards, befriended, run>>

\* CreditCard.charge(amount)
charge(c, amount) ==
    /\ ncalls < run.limit
    /\ cards' = [cards EXCEPT ![c].balance = charge_balance(@, amount)]
    /\ last' = Call("charge", 0, c, amount, "",
                    charge_ok(cards[c].balance, amount), <<>>)
    /\ ncalls' = ncalls + 1
    /\ UNCHANGED <<users, befriended, run>>

\* User.add_friend(friend)
add_friend(s, f) ==
    /\ ncalls < run.limit
    /\ users' = IF add_friend_ok(users, s, f)
                THEN add_friend_users(users, s, f) ELSE users
    /\ last' = Call("add_friend", s, f, 0, "", add_friend_ok(users, s, f), <<>>)
    /\ befriended' = IF add_friend_ok(users, s, f)
                     THEN Append(befriended, <<s, f>>) ELSE befriended
    /\ ncalls' = ncalls + 1
    /\ UNCHANGED <<cards, run>>

\* User.pay(recipient, amount, description)
pay(s, r, amount, description) ==
    /\ ncalls < run.limit
    /\ LET path == pay_path(users, cards, s, r, amount) IN
        /\ users' = CASE path = "cash" ->
                             pay_cash_users(users, s, r, amount, description)
                      [] path = "credit" ->
                             pay_credit_users(users, s, r, amount, description)
                      [] OTHER -> users
        /\ cards' = IF path = "credit"
                    THEN pay_credit_cards(users, cards, s, amount) ELSE cards
        /\ last' = Call("pay", s, r, amount, description, path # "fail", <<>>)
    /\ ncalls' = ncalls + 1
    /\ UNCHANGED <<befriended, run>>

\* User.retrieve_activity()
retrieve_activity(s) ==
    /\ ncalls < run.limit
    /\ last' = Call("retrieve_activity", s, 0, 0, "", TRUE, users[s].activity_log)
    /\ ncalls' = ncalls + 1
    /\ UNCHANGED <<users, cards, befriended, run>>

\* MiniVenmo.render_feed()
render_feed ==
    /\ ncalls < run.limit
    /\ last' = Call("render_feed", 0, 0, 0, "", TRUE, render_feed_of(users))
    /\ ncalls' = ncalls + 1
    /\ UNCHANGED <<users, cards, befriended, run>>

Next ==
    \/ \E name \in Names, balance \in UserBalances : create_user(name, balance)
    \/ \E balance \in CardBalances : new_credit_card(balance)
    \/ \E s \in UserIds, c \in CardIds : assign_credit_card(s, c)
    \/ \E c \in CardIds, amount \in Amounts : charge(c, amount)
    \/ \E s \in UserIds, f \in UserIds : add_friend(s, f)
    \/ \E s \in UserIds, r \in UserIds, amount \in Amounts,
          description \in Descriptions : pay(s, r, amount, description)
    \/ \E s \in UserIds : retrieve_activity(s)
    \/ render_feed

Spec == Init /\ [][Next]_vars

\* The state the tests start from (TestMiniVenmo.setUp): Alice and Bob
\* created, one CreditCard constructed and assigned to Alice; here with any
\* of the input balances, and with the card assigned to Bob as well or not.
FundedInit ==
    \E b1 \in UserBalances, b2 \in UserBalances, cb \in CardBalances,
       shared \in BOOLEAN :
        /\ users = <<[NewUser("Alice", b1) EXCEPT !.credit_card = 1],
                     [NewUser("Bob", b2) EXCEPT
                          !.credit_card = IF shared THEN 1 ELSE None]>>
        /\ cards = <<NewCard(cb)>>
        /\ last = Call("assign_credit_card", IF shared THEN 2 ELSE 1, 1, 0, "",
                       TRUE, <<>>)
        /\ ncalls = IF shared THEN 5 ELSE 4
        /\ befriended = <<>>
        /\ run = [limit |-> (IF shared THEN 5 ELSE 4) + MaxFundedCalls,
                  script |-> <<>>]

FundedSpec == FundedInit /\ [][Next]_vars

\* A statement of main(): the method called and its arguments.
Stmt(op, self, other, amount, description) ==
    [op |-> op, self |-> self, other |-> other, amount |-> amount,
     description |-> description]

\* The calls main() makes, in order, with Alice's starting balance, the
\* balance of Charlie's credit card and the amount of the gift as given
\* (main() itself uses 100, 100 and 50).  Users 1, 2, 3 are alice, bob,
\* charlie; cards 1, 2 are alice_credit_card, charlie_credit_card.
MainScript(alice_balance, charlie_card, gift) ==
    << Stmt("create_user", 0, 0, alice_balance, "Alice"),
       Stmt("create_user", 0, 0, 50, "Bob"),
       Stmt("create_user", 0, 0, 0, "Charlie"),
       Stmt("CreditCard", 0, 0, 200, ""),
       Stmt("assign_credit_card", 1, 1, 0, ""),
       Stmt("CreditCard", 0, 0, charlie_card, ""),
       Stmt("assign_credit_card", 3, 2, 0, ""),
       Stmt("add_friend", 1, 2, 0, ""),
       Stmt("add_friend", 2, 3, 0, ""),
       Stmt("pay", 1, 2, 25, "lunch"),
       Stmt("pay", 2, 3, 10, "movie ticket"),
       Stmt("pay", 3, 1, 5, "snack"),
       Stmt("pay", 1, 1, 10, "self-payment"),
       Stmt("pay", 3, 1, gift, "gift"),
       Stmt("render_feed", 0, 0, 0, "") >>

\* The inputs main() is run with.
MainAliceBalances == {100, 20}
MainCharlieCards  == {100, 40}
MainGifts         == {50, 5}

MainInit ==
    \E a \in MainAliceBalances, c \in MainCharlieCards, g \in MainGifts :
        /\ users = <<>>
        /\ cards = <<>>
        /\ last = Call("init", 0, 0, 0, "", FALSE, <<>>)
        /\ ncalls = 0
        /\ befriended = <<>>
        /\ run = [limit |-> Len(MainScript(a, c, g)),
                  script |-> MainScript(a, c, g)]

\* main(): its next statement
main ==
    /\ ncalls < Len(run.script)
    /\ LET c == run.script[ncalls + 1] IN
         CASE c.op = "create_user" -> create_user(c.description, c.amount)
           [] c.op = "CreditCard" -> new_credit_card(c.amount)
           [] c.op = "assign_credit_card" -> assign_credit_card(c.self, c.other)
           [] c.op = "add_friend" -> add_friend(c.self, c.other)
           [] c.op = "pay" -> pay(c.self, c.other, c.amount, c.description)
           [] c.op = "render_feed" -> render_feed

MainSpec == MainInit /\ [][main]_vars

\* ================================================================= claims
\* The last entry of a non-empty list.
Last(list) == list[Len(list)]

\* The call made by the step is a call of op.
Called(op) == last'.op = op

\* C1: a pay, add_friend or charge that returns False changes no account's
\* balance, credit card, friends list or activity log, and no credit card's
\* balance.
C1_FailureChangesNothing ==
    [][(last'.op \in {"pay", "add_friend", "charge"} /\ ~last'.result)
          => (users' = users /\ cards' = cards)]_vars

\* C1 witness: a payment between two accounts, for a positive amount, by a
\* payer with a credit card assigned, was refused for lack of funds.
C1_Witness ==
    /\ last.op = "pay" /\ ~last.result
    /\ last.self # last.other /\ last.amount > 0
    /\ users[last.self].credit_card # None
    /\ users[last.self].balance > 0
    /\ cards[users[last.self].credit_card].balance > 0

\* C2: when A # B, m > 0 and A.balance >= m, A.pay(B, m, d) returns True,
\* moves exactly m from A.balance to B.balance (their sum is unchanged) and
\* changes no credit card's balance.
C2_CashPath ==
    [][LET s == last'.self
           r == last'.other
           m == last'.amount
       IN (Called("pay") /\ s # r /\ m > 0 /\ users[s].balance >= m)
            => /\ last'.result
               /\ users'[s].balance = users[s].balance - m
               /\ users'[r].balance = users[r].balance + m
               /\ users'[s].balance + users'[r].balance
                      = users[s].balance + users[r].balance
               /\ cards' = cards]_vars

\* C2 witness: a payer whose credit card would have covered the amount paid
\* from the cash balance (the payer's log holds the cash-path entry).
C2_Witness ==
    /\ last.op = "pay" /\ last.result
    /\ users[last.self].credit_card # None
    /\ cards[users[last.self].credit_card].balance >= last.amount
    /\ Last(users[last.self].activity_log)
           = Last(users[last.other].activity_log)

\* C3: when A # B, m > 0, A.balance < m and A's credit card has
\* balance >= m (m itself included), A.pay(B, m, d) returns True, leaves
\* A.balance unchanged, takes exactly m from the credit card and adds exactly
\* m to B.balance.
C3_CreditPath ==
    [][LET s == last'.self
           r == last'.other
           m == last'.amount
           c == users[s].credit_card
       IN (/\ Called("pay") /\ s # r /\ m > 0 /\ users[s].balance < m
           /\ c # None /\ cards[c].balance >= m)
            => /\ last'.result
               /\ users'[s].balance = users[s].balance
               /\ cards'[c].balance = cards[c].balance - m
               /\ users'[r].balance = users[r].balance + m]_vars

\* C3 witness: a payer with cash of its own paid by credit card an amount
\* equal to the card's whole balance.
C3_Witness ==
    /\ last.op = "pay" /\ last.result
    /\ users[last.self].balance > 0
    /\ users[last.self].balance < last.amount
    /\ users[last.self].credit_card # None
    /\ cards[users[last.self].credit_card].balance = 0

\* C4: A.pay(B, m, d) returns True exactly when B is not A, m > 0 and either
\* A.balance >= m or A has a credit card with balance >= m; cash and credit
\* are never added up, and m <= 0 always fails.
C4_PayDecision ==
    [][LET s == last'.self
           r == last'.other
           m == last'.amount
           c == users[s].credit_card
       IN Called("pay")
            => (last'.result
                  <=> /\ r # s
                      /\ m > 0
                      /\ \/ users[s].balance >= m
                         \/ (c # None /\ cards[c].balance >= m))]_vars

\* C4 witness: a payment was refused although the payer's cash and credit
\* together would have covered it.
C4_Witness ==
    /\ last.op = "pay" /\ ~last.result
    /\ last.self # last.other /\ last.amount > 0
    /\ users[last.self].credit_card # None
    /\ users[last.self].balance < last.amount
    /\ cards[users[last.self].credit_card].balance < last.amount
    /\ users[last.self].balance
         + cards[users[last.self].credit_card].balance >= last.amount

\* C5: A.pay(A, m, d) returns False for every m and whatever A's funds, while
\* a payment between two different accounts of the same name succeeds when
\* the payer's cash covers a positive amount.
C5_SelfPaymentByIdentity ==
    [][LET s == last'.self
           r == last'.other
           m == last'.amount
       IN Called("pay")
            => /\ (r = s) => ~last'.result
               /\ (/\ r # s /\ users[r].name = users[s].name
                   /\ m > 0 /\ users[s].balance >= m) => last'.result]_vars

\* C5 witness: a successful payment between two different accounts that have
\* the same name.
C5_Witness ==
    /\ last.op = "pay" /\ last.result
    /\ last.self # last.other
    /\ users[last.self].name = users[last.other].name

\* C6: in every reachable state the friends relation is symmetric,
\* irreflexive and free of duplicates (and holds registered accounts only).
C6_FriendsWellFormed ==
    \A a \in UserIds :
        LET fr == users[a].friends IN
        /\ \A i \in 1..Len(fr) : fr[i] \in UserIds
        /\ ~InList(a, fr)
        /\ \A b \in UserIds : InList(b, fr) <=> InList(a, users[b].friends)
        /\ \A i, j \in 1..Len(fr) : i # j => fr[i] # fr[j]

\* C6 witness: three accounts, the first a friend of the second, the second
\* of the third, the first and the third not friends.
C6_Witness ==
    /\ Len(users) >= 3
    /\ users[1].friends = <<2>>
    /\ users[2].friends = <<1, 3>>
    /\ users[3].friends = <<2>>

\* The unordered pair of the i-th successful add_friend.
Pair(i) == {befriended[i][1], befriended[i][2]}

\* C7: A.add_friend(B) returns True exactly when B is not A and B is not in
\* A.friends; A.add_friend(A) is always False; and a successful add_friend is
\* the first success for its unordered pair of accounts, in either direction.
C7_AddFriendOnce ==
    [][LET s == last'.self
           f == last'.other
       IN Called("add_friend")
            => /\ last'.result <=> (f # s /\ ~InList(f, users[s].friends))
               /\ (f = s) => ~last'.result
               /\ last'.result
                    => \A i \in 1..Len(befriended) : Pair(i) # {s, f}]_vars

\* C7 witness: after A.add_friend(B) succeeded, B.add_friend(A) returned
\* False.
C7_Witness ==
    /\ last.op = "add_friend" /\ ~last.result
    /\ last.self # last.other
    /\ InList(<<last.other, last.self>>, befriended)

\* C8: in every step each account's activity log keeps its old entries as a
\* prefix, and it grows only when the step is a pay or add_friend that
\* returned True with that account as caller or as other party.
C8_LogsAppendOnly ==
    [][\A u \in UserIds :
          LET old == users[u].activity_log
              new == users'[u].activity_log
          IN /\ u \in 1..Len(users')
             /\ Len(new) >= Len(old)
             /\ SubSeq(new, 1, Len(old)) = old
             /\ new # old
                  => /\ last'.op \in {"pay", "add_friend"}
                     /\ last'.result
                     /\ u \in {last'.self, last'.other}]_vars

\* C8 witness: an account that already had an entry in its log received a
\* payment.
C8_Witness ==
    /\ last.op = "pay" /\ last.result
    /\ Len(users[last.other].activity_log) >= 2

\* C9: a successful add_friend or pay appends exactly one entry to the
\* caller's log and one to the other party's, and changes no third account's
\* log.  add_friend writes "<self> and <other> are now friends" to the caller
\* and "<other> and <self> are now friends" to the other; a cash-path pay
\* writes "<payer> paid <recipient> $<amount, 2 decimals> for <description>"
\* to both.
C9_LogEntries ==
    [][LET s == last'.self
           o == last'.other
           m == last'.amount
           d == last'.description
           log(u) == users[u].activity_log
           log2(u) == users'[u].activity_log
           others == \A u \in UserIds \ {s, o} : log2(u) = log(u)
       IN /\ (Called("add_friend") /\ last'.result)
               => /\ log2(s) = Append(log(s),
                        users[s].name \o " and " \o users[o].name
                            \o " are now friends")
                  /\ log2(o) = Append(log(o),
                        users[o].name \o " and " \o users[s].name
                            \o " are now friends")
                  /\ others
          /\ (Called("pay") /\ last'.result)
               => /\ Len(log2(s)) = Len(log(s)) + 1
                  /\ Len(log2(o)) = Len(log(o)) + 1
                  /\ SubSeq(log2(s), 1, Len(log(s))) = log(s)
                  /\ SubSeq(log2(o), 1, Len(log(o))) = log(o)
                  /\ others
                  /\ users[s].balance >= m
                       => LET entry == users[s].name \o " paid " \o users[o].name
                                           \o " $" \o ToString(m) \o ".00 for " \o d
                          IN /\ Last(log2(s)) = entry
                             /\ Last(log2(o)) = entry]_vars

\* C9 witness: with a third account registered, Alice paid Bob 3 in cash and
\* both logs end with the same entry, after the two had become friends.
C9_Witness ==
    /\ Len(users) >= 3
    /\ last.op = "pay" /\ last.result
    /\ users[last.self].activity_log
         = <<"Alice and Bob are now friends", "Alice paid Bob $3.00 for lunch">>
    /\ users[last.other].activity_log
         = <<"Bob and Alice are now friends", "Alice paid Bob $3.00 for lunch">>

\* C10: CreditCard.charge(amount) returns True and subtracts amount exactly
\* when balance >= amount and otherwise changes nothing; and whenever a step
\* changes a credit card's balance (a charge or pay's credit path) the new
\* balance is >= 0.
C10_DebitNeverNegative ==
    [][/\ Called("charge")
            => LET c == last'.other
                   m == last'.amount
               IN /\ last'.result <=> cards[c].balance >= m
                  /\ last'.result
                       => cards' = [cards EXCEPT ![c].balance = @ - m]
                  /\ ~last'.result => cards' = cards
       /\ \A c \in CardIds :
              cards'[c].balance # cards[c].balance => cards'[c].balance >= 0
       /\ (Called("pay") /\ cards' # cards)
            => LET c == users[last'.self].credit_card
               IN cards' = [cards EXCEPT ![c].balance = @ - last'.amount]]_vars

\* C10 witness: a card with a negative balance was charged a negative amount
\* with success.
C10_Witness ==
    /\ last.op = "charge" /\ last.result
    /\ last.amount < 0
    /\ cards[last.other].balance + last.amount < 0

\* The elements of a list.
Range(list) == {list[i] : i \in 1..Len(list)}

\* No element of the list occurs twice.
NoRepeat(list) == \A i, j \in 1..Len(list) : i # j => list[i] # list[j]

\* C11: the list render_feed returns holds no string twice and holds every
\* string of every registered account's activity log (so the one string a
\* cash-path payment writes to two logs is in the feed exactly once).
C11_FeedDeduplicated ==
    last.op = "render_feed"
        => /\ NoRepeat(last.out)
           /\ \A u \in UserIds : Range(users[u].activity_log) \subseteq Range(last.out)
           /\ \A e \in Range(last.out) :
                  Cardinality({i \in 1..Len(last.out) : last.out[i] = e}) = 1

\* C11 witness: render_feed was called when the payer's and the recipient's
\* log both held the entry of a cash-path payment.
C11_Witness ==
    /\ last.op = "render_feed"
    /\ \E u, v \in UserIds :
          /\ u # v
          /\ "Alice paid Bob $3.00 for lunch" \in Range(users[u].activity_log)
          /\ "Alice paid Bob $3.00 for lunch" \in Range(users[v].activity_log)
    /\ "Alice paid Bob $3.00 for lunch" \in Range(last.out)

\* All activity logs one after the other, in account-creation order.
RECURSIVE AllLogs(_)
AllLogs(us) ==
    IF us = <<>> THEN <<>>
    ELSE AllLogs(SubSeq(us, 1, Len(us) - 1)) \o us[Len(us)].activity_log

\* The list without every occurrence of a string after its first.
FirstOccurrences(list) ==
    LET keep == {i \in 1..Len(list) : \A j \in 1..(i - 1) : list[j] # list[i]}
    IN [k \in 1..Cardinality(keep) |->
           list[CHOOSE i \in keep : Cardinality({j \in keep : j <= i}) = k]]

\* C12: the list render_feed returns is the concatenation of all activity
\* logs, accounts in creation order and each log in its own order, with
\* every occurrence of a string after its first removed.
C12_FeedOrder ==
    last.op = "render_feed" => last.out = FirstOccurrences(AllLogs(users))

\* C12 witness: the feed lists the payment, made second, before the second
\* account's friendship entry, written first (the second account's log shows
\* the order in which the two operations happened).
C12_Witness ==
    /\ last.op = "render_feed"
    /\ Len(users) = 2
    /\ users[2].activity_log
         = <<"Bob and Alice are now friends", "Alice paid Bob $3.00 for lunch">>
    /\ last.out = <<"Alice and Bob are now friends",
                    "Alice paid Bob $3.00 for lunch",
                    "Bob and Alice are now friends">>

\* C13: a successful credit-path payment from A to B writes
\* "Paid <B> $<amount> for <description> (credit card)" to A's log and
\* "<A> paid <B> $<amount> for <description>" to B's log; the two strings
\* differ and the feed of the resulting state holds both, as two entries.
C13_CreditEntries ==
    [][LET s == last'.self
           r == last'.other
           m == last'.amount
           d == last'.description
           own == "Paid " \o users[r].name \o " $" \o ToString(m) \o ".00 for "
                      \o d \o " (credit card)"
           theirs == users[s].name \o " paid " \o users[r].name \o " $"
                         \o ToString(m) \o ".00 for " \o d
           feed == render_feed_of(users')
       IN (Called("pay") /\ last'.result /\ users[s].balance < m)
            => /\ users'[s].activity_log = Append(users[s].activity_log, own)
               /\ users'[r].activity_log = Append(users[r].activity_log, theirs)
               /\ own # theirs
               /\ \E i, j \in 1..Len(feed) :
                      i # j /\ feed[i] = own /\ feed[j] = theirs]_vars

\* C13 witness: render_feed was called after Alice paid Bob by credit card,
\* and the list it returned holds the payer's and the recipient's entry.
C13_Witness ==
    /\ last.op = "render_feed"
    /\ users[1].activity_log = <<"Paid Bob $2.00 for lunch (credit card)">>
    /\ users[2].activity_log = <<"Alice paid Bob $2.00 for lunch">>
    /\ last.out = <<"Paid Bob $2.00 for lunch (credit card)",
                    "Alice paid Bob $2.00 for lunch">>

\* C14: create_user appends the new account at the end of MiniVenmo.users
\* and returns it, whether or not its name is already registered; no step
\* removes or moves an account (every account stays at its position, so the
\* registry lists every account created, once, in creation order), and no
\* other call changes the number of accounts.
C14_Registry ==
    [][/\ Len(users') >= Len(users)
       /\ \A u \in UserIds : users'[u].name = users[u].name
       /\ Called("create_user")
            => /\ users' = Append(users,
                     [name |-> last'.description, balance |-> last'.amount,
                      credit_card |-> None, friends |-> <<>>,
                      activity_log |-> <<>>])
               /\ last'.self = Len(users) + 1
       /\ ~Called("create_user") => Len(users') = Len(users)]_vars

\* C14 witness: a second account named Alice was registered, and a third
\* account after a payment between the first two.
C14_Witness ==
    /\ last.op = "create_user" /\ last.self = 3
    /\ Len(users) = 3
    /\ users[1].name = "Alice" /\ users[2].name = "Alice"
    /\ users[1].activity_log # <<>>

\* C15: main() as written (Alice 100, Bob 50, Charlie 0, Alice's card 200,
\* Charlie's card 100): the two add_friend calls and the payments of 25, 10
\* and 5 return True, Alice's payment to herself returns False, Charlie's
\* gift of 50 returns True; afterwards the balances are Alice 130, Bob 65,
\* Charlie 5, Alice's card 200, Charlie's card 50, and the feed holds every
\* friendship and payment entry exactly once.
C15_EndToEnd ==
    run.script = MainScript(100, 100, 50)
        => /\ ncalls \in {8, 9, 10, 11, 12, 14} => last.result
           /\ ncalls = 13 => (last.op = "pay" /\ ~last.result)
           /\ ncalls >= 14
                => /\ users[1].balance = 130
                   /\ users[2].balance = 65
                   /\ users[3].balance = 5
                   /\ cards[1].balance = 200
                   /\ cards[2].balance = 50
           /\ ncalls = 15
                => /\ last.op = "render_feed"
                   /\ NoRepeat(last.out)
                   /\ Range(last.out) =
                        {"Alice and Bob are now friends",
                         "Bob and Alice are now friends",
                         "Bob and Charlie are now friends",
                         "Charlie and Bob are now friends",
                         "Alice paid Bob $25.00 for lunch",
                         "Bob paid Charlie $10.00 for movie ticket",
                         "Charlie paid Alice $5.00 for snack",
                         "Charlie paid Alice $50.00 for gift",
                         "Paid Alice $50.00 for gift (credit card)"}

\* C15 witness: main() as written has run to its end.
C15_Witness ==
    /\ run.script = MainScript(100, 100, 50)
    /\ ncalls = 15
    /\ last.op = "render_feed" /\ Len(last.out) = 9
    /\ users[3].balance = 5 /\ cards[2].balance = 50

\* C16: whenever pay takes its credit path (its test of the credit card's
\* balance has passed), CreditCard.charge(amount) on that card would return
\* True in the state before the call, and the balance pay leaves on the card
\* is the balance charge would leave.
C16_CreditDebitAsCharge ==
    [][LET s == last'.self
           r == last'.other
           m == last'.amount
           c == users[s].credit_card
       IN (/\ Called("pay") /\ s # r /\ m > 0 /\ users[s].balance < m
           /\ c # None /\ cards[c].balance >= m)
            => /\ charge_ok(cards[c].balance, m)
               /\ cards'[c].balance = charge_balance(cards[c].balance, m)
               /\ \A k \in CardIds \ {c} : cards'[k] = cards[k]]_vars

\* C16 witness: a credit-path payment that left money on the card.
C16_Witness ==
    /\ last.op = "pay" /\ last.result
    /\ Last(users[last.self].activity_log)
         = "Paid Bob $2.00 for lunch (credit card)"
    /\ cards[users[last.self].credit_card].balance = 1

\* The sum of the balance fields of a list of users or of credit cards.
RECURSIVE SumBalances(_)
SumBalances(list) ==
    IF list = <<>> THEN 0 ELSE list[1].balance + SumBalances(Tail(list))

\* All the money in the system: every account's cash and every credit
\* card's balance, a card counted once however many accounts it is assigned
\* to.
Total(us, cs) == SumBalances(us) + SumBalances(cs)

\* C17: pay (successful or not, cash or credit), add_friend and render_feed
\* leave the total of all cash and credit balances unchanged, and a step
\* that raises the total is a create_user or the construction of a credit
\* card.
C17_Conservation ==
    [][/\ last'.op \in {"pay", "add_friend", "render_feed"}
            => Total(users', cards') = Total(users, cards)
       /\ Total(users', cards') > Total(users, cards)
            => last'.op \in {"create_user", "CreditCard"}]_vars

\* Every account's cash balance and every credit card's balance is >= 0.
NonNegative(us, cs) ==
    /\ \A u \in 1..Len(us) : us[u].balance >= 0
    /\ \A c \in 1..Len(cs) : cs[c].balance >= 0

\* C18: from a state in which every cash balance and every credit card's
\* balance is >= 0, a step leads to a state in which they all are again,
\* unless it creates an account or a credit card with a negative balance;
\* so with accounts and cards created >= 0 no sequence of add_friend,
\* assign_credit_card and pay (nor charge) makes a balance negative, shared
\* credit cards included.
C18_NoOverdraft ==
    [][NonNegative(users, cards)
          => \/ NonNegative(users', cards')
             \/ (last'.op \in {"create_user", "CreditCard"} /\ last'.amount < 0)]_vars

\* C18 witness: with one credit card assigned to both accounts and no
\* balance negative, Bob paid Alice by credit card an amount that used the
\* card up.
C18_Witness ==
    /\ last.op = "pay" /\ last.result /\ last.self = 2
    /\ NonNegative(users, cards)
    /\ users[1].credit_card = 1 /\ users[2].credit_card = 1
    /\ cards[1].balance = 0
    /\ Last(users[2].activity_log) = "Paid Alice $2.00 for lunch (credit card)"

\* The accounts with every friends list emptied.
NoFriends(us) == [u \in 1..Len(us) |-> [us[u] EXCEPT !.friends = <<>>]]

\* C19: pay changes no friends list, and returns what it would return if
\* nobody were anybody's friend; add_friend changes no cash balance, no
\* credit-card assignment and no credit card's balance; render_feed and
\* retrieve_activity change no account, no credit card and not the registry.
C19_Separation ==
    [][/\ Called("pay")
            => /\ \A u \in UserIds : users'[u].friends = users[u].friends
               /\ last'.result
                    <=> pay_path(NoFriends(users), cards, last'.self,
                                 last'.other, last'.amount) # "fail"
       /\ Called("add_friend")
            => /\ cards' = cards
               /\ \A u \in UserIds :
                      /\ users'[u].balance = users[u].balance
                      /\ users'[u].credit_card = users[u].credit_card
       /\ last'.op \in {"render_feed", "retrieve_activity"}
            => (users' = users /\ cards' = cards)]_vars

\* C19 witness: an account paid one of its friends while a third account,
\* not its friend, was registered.
C19_Witness ==
    /\ last.op = "pay" /\ last.result
    /\ InList(last.other, users[last.self].friends)
    /\ \E u \in UserIds : u # last.self /\ ~InList(u, users[last.self].friends)

\* C20: when the entries a successful payment appends to the two logs
\* already occur in the feed, the feed after the payment holds the same
\* entries as the feed before it and is no longer: the payment adds no entry,
\* although it moved the money.  (An entry may move forward in the feed when
\* an earlier account's log now holds it.)
C20_FeedCollapses ==
    [][LET s == last'.self
           r == last'.other
           before == render_feed_of(users)
           after == render_feed_of(users')
       IN (/\ Called("pay") /\ last'.result
           /\ Last(users'[s].activity_log) \in Range(before)
           /\ Last(users'[r].activity_log) \in Range(before))
            => /\ Len(after) = Len(before)
               /\ Range(after) = Range(before)
               /\ Total(users', cards') = Total(users, cards)
               /\ users'[r].balance = users[r].balance + last'.amount]_vars

\* C20 witness: two accounts, both named Bob, each paid the other 3; each
\* log holds two entries and the list render_feed returned holds one.
C20_Witness ==
    /\ last.op = "render_feed"
    /\ last.out = <<"Bob paid Bob $3.00 for lunch">>
    /\ Len(users) = 2
    /\ Len(users[1].activity_log) = 2
    /\ Len(users[2].activity_log) = 2

====
